---- MODULE Spec2Model ----
(***************************************************************************)
(* NYC Taxi Analytics dashboard (src/dashboard.py).                        *)
(*                                                                         *)
(* The script is re-executed top to bottom for every report ("run"): it    *)
(* checks DATABASE_URL, creates the engine, calls load_table for the seven *)
(* summary views (through the st.cache_data cache), reads the sidebar      *)
(* radio, computes the two shared totals and renders the branch of the     *)
(* selected page.  A DataFrame is a sequence of rows, a row a record.      *)
(* Money is in whole units, a value rounded to 2 decimals is kept in       *)
(* hundredths.                                                             *)
(***************************************************************************)
EXTENDS Integers, Sequences, FiniteSets, TLC

\* ------------------------------------------------------------------ bounds
\* Rows per summary view, largest cell value, runs of the script per session.
MaxRows == 2
MaxVal == 2
MaxRuns == 3

\* ------------------------------------------------------- program constants
PeakN == 1
TopDaysN == 5
TopHoursN == 8
TopZonesN == 10
SliderMin == 5
SliderMax == 25
SliderDefault == 10

\* The seven views in the order the script loads them (lines 44-50).
TableOrder ==
  << "daily_revenue", "payment_summary", "passenger_summary", "pickup_summary",
     "dropoff_summary", "hourly_trends", "trip_length_summary" >>

TableNames == { TableOrder[i] : i \in 1..Len(TableOrder) }

\* The options of the sidebar radio (lines 60-69); the first is its default.
Pages ==
  << "Overview", "Daily Trends", "Customer Behavior", "Geography",
     "Performance Insights" >>

PageSet == { Pages[i] : i \in 1..Len(Pages) }

\* The values the slider of line 327 is moved to: its ends and its default.
SliderVals == { SliderMin, SliderDefault, SliderMax }

\* What os.getenv("DATABASE_URL") can return: None, the empty string, a URL.
EnvValues == { "None", "", "postgresql://pooler" }

\* ------------------------------------------------------------- the views
\* The column of each view that names its row (the view's GROUP BY key).
IdCol(t) ==
  CASE t = "daily_revenue" -> "trip_date"
    [] t = "payment_summary" -> "payment_type"
    [] t = "passenger_summary" -> "passenger_count"
    [] t = "pickup_summary" -> "pickup_zone"
    [] t = "dropoff_summary" -> "dropoff_zone"
    [] t = "hourly_trends" -> "hour_of_day"
    [] t = "trip_length_summary" -> "trip_bucket"

\* A view's i-th row with the columns the script reads, from a pair of cell
\* values; the key column numbers the rows in the order the database
\* returns them.
ViewRow(t, i, r) ==
  CASE t = "daily_revenue" ->
         [ trip_date |-> i, trips |-> r.trips, total_revenue |-> r.revenue,
           avg_fare |-> r.revenue, avg_distance |-> r.trips,
           avg_tip_pct |-> r.revenue ]
    [] t = "payment_summary" -> [ payment_type |-> i, revenue |-> r.revenue ]
    [] t = "passenger_summary" -> [ passenger_count |-> i, trips |-> r.trips ]
    [] t = "pickup_summary" ->
         [ pickup_zone |-> i, trips |-> r.trips, revenue |-> r.revenue,
           avg_fare |-> r.revenue ]
    [] t = "dropoff_summary" ->
         [ dropoff_zone |-> i, trips |-> r.trips, revenue |-> r.revenue,
           avg_fare |-> r.revenue ]
    [] t = "hourly_trends" -> [ hour_of_day |-> i, trips |-> r.trips ]
    [] t = "trip_length_summary" -> [ trip_bucket |-> i, trips |-> r.trips ]

Cells == [ trips : 0..MaxVal, revenue : 0..MaxVal ]

\* Every content of up to MaxRows rows.
Contents == UNION { [ 1..n -> Cells ] : n \in 0..MaxRows }

View(t, c) == [ i \in 1..Len(c) |-> ViewRow(t, i, c[i]) ]

Warehouse(c) == [ t \in TableNames |-> View(t, c) ]

\* The contents the session model starts from and the pipeline writes: no
\* rows, or MaxRows rows that each earn 1, the first without a trip, so that
\* revenues tie and a day without trips stands beside days with trips.
SessionContents ==
  { c \in Contents :
      /\ Len(c) \in { 0, MaxRows }
      /\ \A i \in 1..Len(c) : c[i] = [ trips |-> i - 1, revenue |-> 1 ] }

\* --------------------------------------------------------- pandas helpers
Min(a, b) == IF a <= b THEN a ELSE b

empty(df) == Len(df) = 0

RECURSIVE SumTo(_, _, _)
SumTo(df, col, n) == IF n = 0 THEN 0 ELSE SumTo(df, col, n - 1) + df[n][col]

\* Series.sum(): 0 for no rows.
sum(df, col) == SumTo(df, col, Len(df))

\* Series.mean() as the fraction num/den; den = 0 is NaN (no rows).
mean(df, col) == [ num |-> sum(df, col), den |-> Len(df) ]

\* DataFrame.head(n).
head(df, n) == SubSeq(df, 1, Min(n, Len(df)))

\* df[[cols]]: the frame with only these columns.
columns(df, cols) == [ i \in 1..Len(df) |-> [ c \in cols |-> df[i][c] ] ]

\* x rounded to the nearest integer, halves to the even one (numpy's round),
\* for x = num / den with num >= 0 and den > 0.
RoundHalfEven(num, den) ==
  LET q == num \div den
      r == num % den
  IN  IF 2 * r < den THEN q
      ELSE IF 2 * r > den THEN q + 1
      ELSE IF q % 2 = 0 THEN q ELSE q + 1

\* ------------------------------------------------------------------ state
VARIABLES
  DB_URL,     \* the environment's DATABASE_URL
  source,     \* the warehouse: view name -> rows
  tieBreak,   \* how this numpy build orders equal keys in a quicksort argsort
  cache,      \* st.cache_data's entries of load_table: view name -> rows
  cached,     \* the view names that have an entry
  page,       \* the sidebar radio's value
  top_n,      \* the slider's value
  pc,         \* where the run is: config, load, page, done, failed, stopped
  idx,        \* the next load_table call of lines 44-50
  engine,     \* create_engine was called in this run
  tables,     \* the run's seven module-level frames
  bound,      \* the names among them that are assigned
  out,        \* the page content this run has rendered: at most one page
  error,      \* what this run reported: none, config (st.error), load (exception)
  calls,      \* load_table calls of this run, per view
  reads,      \* pd.read_sql executions of this run, per view
  atLoad,     \* per view, at its load_table call: cache hit?, the source's rows,
              \* the cache's entry before the call, the frame returned
  runs,       \* runs of the script so far
  prev        \* the last run that rendered a page, if any

vars ==
  << DB_URL, source, tieBreak, cache, cached, page, top_n, pc, idx, engine,
     tables, bound, out, error, calls, reads, atLoad, runs, prev >>

env == << DB_URL, source, tieBreak >>

NoFrames == [ t \in TableNames |-> << >> ]

NoCounts == [ t \in TableNames |-> 0 ]

NoLoads ==
  [ t \in TableNames |-> [ hit |-> FALSE, src |-> << >>, entry |-> << >>, df |-> << >> ] ]

\* ----------------------------------------------------------------- sorting
\* Whether row i comes before row j when their sort keys are equal.
\* sort_values is called without kind=, so pandas sorts with numpy's
\* quicksort, which is not stable: the build decides the order of equal keys.
TieFirstPerRun(i, j) == IF runs % 2 = 1 THEN i < j ELSE i > j

TieFirst(i, j) == IF tieBreak = "original" THEN i < j ELSE i > j

\* DataFrame.sort_values(col, ascending=...): a new frame.
sort_values(df, col, ascending) ==
  LET n == Len(df)
      Before(i, j) ==
        IF df[i][col] # df[j][col]
          THEN IF ascending THEN df[i][col] < df[j][col] ELSE df[i][col] > df[j][col]
          ELSE TieFirst(i, j)
      Rank(i) == Cardinality({ j \in 1..n : Before(j, i) }) + 1
  IN  [ k \in 1..n |-> df[CHOOSE i \in 1..n : Rank(i) = k] ]

\* df.sort_values(col, ascending=False).head(n)
top(df, col, n) == head(sort_values(df, col, FALSE), n)

\* A frame with one more column, vals[i] in row i.
with_column(df, col, vals) ==
  [ i \in 1..Len(df) |->
      [ c \in (DOMAIN df[i]) \cup { col } |-> IF c = col THEN vals[i] ELSE df[i][c] ] ]

\* What the name df holds after "x = df.copy()" and a column assignment to x
\* that makes x the frame assigned: the copy is deep, df keeps its rows.
after_alias(df, assigned) == assigned

after_copy(df, assigned) == df

\* ------------------------------------------------------------ the script
\* "if not DB_URL" (line 25): None and the empty string are both falsy.
ConfigMissingNoneOnly(url) == url = "None"

ConfigMissing(url) == url \in { "None", "" }

\* load_table(t) (lines 35-41) under st.cache_data: a cached entry is
\* returned without running the query; otherwise pd.read_sql runs and either
\* returns the view's rows, which are cached, or raises (ok = FALSE).
load_table_uncached(t, ok) ==
  IF ok THEN [ raised |-> FALSE, df |-> source[t], read |-> TRUE ]
  ELSE [ raised |-> TRUE, df |-> << >>, read |-> TRUE ]

load_table(t, ok) ==
  IF t \in cached THEN [ raised |-> FALSE, df |-> cache[t], read |-> FALSE ]
  ELSE IF ok THEN [ raised |-> FALSE, df |-> source[t], read |-> TRUE ]
  ELSE [ raised |-> TRUE, df |-> << >>, read |-> TRUE ]

\* Where the run goes after the i-th load_table call of lines 44-50: an
\* exception ends the script, the seventh assignment leads to line 56.
AfterLoadSwallow(raised, i) == IF i = Len(TableOrder) THEN "page" ELSE "load"

AfterLoad(raised, i) ==
  IF raised THEN "failed" ELSE IF i = Len(TableOrder) THEN "page" ELSE "load"

\* Lines 73-74.
total_revenue_all_overview(df) ==
  IF page = "Overview" /\ ~empty(df) THEN sum(df, "total_revenue") ELSE 0

total_revenue_all(df) == IF ~empty(df) THEN sum(df, "total_revenue") ELSE 0

total_trips_all(df) == IF ~empty(df) THEN sum(df, "trips") ELSE 0

\* Lines 89-91: float(df[col].mean()) if not df.empty else 0.0
avg_all_unguarded(df, col) == mean(df, col)

avg_all(df, col) == IF ~empty(df) THEN mean(df, col) ELSE [ num |-> 0, den |-> 1 ]

\* Line 104, one row: (revenue / total * 100.0).round(2) if total > 0 else 0.0,
\* in hundredths of a percent.
rev_share_pct_floor(revenue, total) ==
  IF total > 0 THEN (revenue * 10000) \div total ELSE 0

rev_share_pct(revenue, total) ==
  IF total > 0 THEN RoundHalfEven(revenue * 10000, total) ELSE 0

\* Line 351, one row: (total_revenue / trips).round(2), in hundredths; pandas
\* divides by 0 without raising, giving inf, or NaN for 0 / 0.
revenue_per_trip(total_revenue, trips) ==
  IF trips # 0 THEN [ kind |-> "num", v |-> RoundHalfEven(total_revenue * 100, trips) ]
  ELSE IF total_revenue # 0 THEN [ kind |-> "inf", v |-> 0 ]
  ELSE [ kind |-> "nan", v |-> 0 ]

\* A line of the executive commentary: "N/A", or a label with its value.
NA == [ text |-> "N/A", label |-> 0, value |-> 0 ]

Text(label, value) == [ text |-> "shown", label |-> label, value |-> value ]

\* Lines 120-151, one entry: the top row by col when the frame has rows.
peak(df, col) == IF ~empty(df) THEN top(df, col, PeakN) ELSE << >>

peak_text(rows, idcol, col) ==
  IF ~empty(rows) THEN Text(rows[1][idcol], rows[1][col]) ELSE NA

\* Lines 101-106: the payment frame with its share column.
share_frame(ps) ==
  LET total_rev_ps == sum(ps, "revenue")
  IN  with_column(ps, "rev_share_pct",
                  [ i \in 1..Len(ps) |-> rev_share_pct(ps[i].revenue, total_rev_ps) ])

\* Lines 350-351: the daily frame with its revenue_per_trip column.
eff_frame(dr) ==
  with_column(dr, "revenue_per_trip",
              [ i \in 1..Len(dr) |-> revenue_per_trip(dr[i].total_revenue, dr[i].trips) ])

\* --------------------------------------------------------------- the pages
\* Lines 79-167.
OverviewBody(T) ==
  LET dr == T["daily_revenue"]
      ps == T["payment_summary"]
      share == IF ~empty(ps) THEN share_frame(ps) ELSE << >>
      top_method_row == IF ~empty(ps) THEN top(share, "rev_share_pct", PeakN) ELSE << >>
      peak_day == peak(dr, "total_revenue")
      peak_trips_day == peak(dr, "trips")
      peak_hour == peak(T["hourly_trends"], "trips")
      tp == peak(T["pickup_summary"], "revenue")
      td == peak(T["dropoff_summary"], "revenue")
  IN  [ avg_fare_all |-> avg_all(dr, "avg_fare"),
        avg_distance_all |-> avg_all(dr, "avg_distance"),
        avg_tip_pct_all |-> avg_all(dr, "avg_tip_pct"),
        share |-> share,
        top_method_row |-> top_method_row,
        top_method |-> peak_text(top_method_row, "payment_type", "rev_share_pct"),
        peak_day |-> peak_day,
        peak_rev_text |-> peak_text(peak_day, "trip_date", "total_revenue"),
        peak_trips_day |-> peak_trips_day,
        peak_trips_text |-> peak_text(peak_trips_day, "trip_date", "trips"),
        peak_hour |-> peak_hour,
        peak_hour_text |-> peak_text(peak_hour, "hour_of_day", "trips"),
        tp |-> tp,
        top_pickup_text |-> peak_text(tp, "pickup_zone", "revenue"),
        td |-> td,
        top_dropoff_text |-> peak_text(td, "dropoff_zone", "revenue") ]

\* Lines 172-216.
DailyTrendsBody(T) ==
  LET dr_sorted == sort_values(T["daily_revenue"], "trip_date", TRUE)
  IN  [ fig_rev |-> dr_sorted, fig_trips |-> dr_sorted, fig_combo |-> dr_sorted ]

\* Lines 221-258.
CustomerBehaviorBody(T) ==
  [ fig_payment |-> sort_values(T["payment_summary"], "revenue", FALSE),
    fig_passengers |-> sort_values(T["passenger_summary"], "passenger_count", TRUE),
    fig_length |-> sort_values(T["trip_length_summary"], "trips", FALSE) ]

\* Lines 263-286.
GeographyBody(T) ==
  [ top_pickups |-> top(T["pickup_summary"], "revenue", TopZonesN),
    top_dropoffs |-> top(T["dropoff_summary"], "revenue", TopZonesN) ]

\* Lines 291-361; n is what st.slider returns.
PerformanceInsightsBody(T, n) ==
  LET dr == T["daily_revenue"]
      top_hours == top(T["hourly_trends"], "trips", TopHoursN)
      charted == total_trips_all(dr) > 0
      dr_eff == IF charted THEN eff_frame(dr) ELSE << >>
  IN  [ top_days_rev |->
          columns(top(dr, "total_revenue", TopDaysN),
                  { "trip_date", "total_revenue", "trips", "avg_fare", "avg_tip_pct" }),
        top_days_trips |->
          columns(top(dr, "trips", TopDaysN),
                  { "trip_date", "trips", "total_revenue", "avg_fare", "avg_tip_pct" }),
        top_hours |-> top_hours,
        fig_hours |-> sort_values(top_hours, "hour_of_day", TRUE),
        top_n |-> n,
        pickup_board |->
          columns(top(T["pickup_summary"], "revenue", n),
                  { "pickup_zone", "trips", "revenue", "avg_fare" }),
        dropoff_board |->
          columns(top(T["dropoff_summary"], "revenue", n),
                  { "dropoff_zone", "trips", "revenue", "avg_fare" }),
        charted |-> charted,
        dr_eff |-> dr_eff,
        fig_rpt |-> sort_values(dr_eff, "trip_date", TRUE) ]

\* What a run shows: the page, the two totals of lines 73-74, the branch.
Rendered(p, T, body) ==
  [ page |-> p,
    total_revenue_all |-> total_revenue_all(T["daily_revenue"]),
    total_trips_all |-> total_trips_all(T["daily_revenue"]),
    body |-> body ]

\* ----------------------------------------------------------------- actions
Terminal == pc \in { "done", "failed", "stopped" }

\* The current run, as the next run remembers it.
Snapshot ==
  [ page |-> page, top_n |-> top_n,
    seen |-> [ t \in TableNames |-> atLoad[t].src ],
    fresh |-> \A t \in TableNames : atLoad[t].src = tables[t],
    tables |-> tables, out |-> out ]

\* Streamlit re-executes the script from line 1 with fresh module globals.
Begin ==
  /\ runs < MaxRuns
  /\ runs' = runs + 1
  /\ pc' = "config"
  /\ idx' = 1
  /\ engine' = FALSE
  /\ tables' = NoFrames
  /\ bound' = {}
  /\ out' = << >>
  /\ error' = "none"
  /\ calls' = NoCounts
  /\ reads' = NoCounts
  /\ atLoad' = NoLoads
  /\ prev' = IF pc = "done" THEN << Snapshot >> ELSE prev
  /\ UNCHANGED << env, cache, cached >>

\* The user reruns the report without touching a widget.
Rerun == Terminal /\ Begin /\ UNCHANGED << page, top_n >>

\* The user picks another page of the radio (lines 60-69).
SelectPage(p) ==
  /\ Terminal
  /\ p # page
  /\ page' = p
  /\ Begin
  /\ UNCHANGED top_n

\* The user moves the slider of line 327, which the Performance Insights
\* page shows.
MoveSlider(n) ==
  /\ pc = "done"
  /\ page = "Performance Insights"
  /\ n # top_n
  /\ top_n' = n
  /\ Begin
  /\ UNCHANGED page

\* The user clears st.cache_data ("invalidate cache by ... clearing cache").
ClearCache ==
  /\ Terminal
  /\ cached # {}
  /\ cached' = {}
  /\ cache' = NoFrames
  /\ UNCHANGED << env, page, top_n, pc, idx, engine, tables, bound, out, error,
                  calls, reads, atLoad, runs, prev >>

\* The upstream pipeline rebuilds the summary views, between two loads of
\* the dashboard.
PipelineRefresh(c) ==
  /\ pc = "config" \/ Terminal
  /\ Warehouse(c) # source
  /\ source' = Warehouse(c)
  /\ UNCHANGED << DB_URL, tieBreak, cache, cached, page, top_n, pc, idx, engine,
                  tables, bound, out, error, calls, reads, atLoad, runs, prev >>

\* Lines 24-30.
CheckConfig ==
  /\ pc = "config"
  /\ IF ConfigMissing(DB_URL)
       THEN /\ error' = "config"
            /\ pc' = "stopped"
            /\ UNCHANGED engine
       ELSE /\ engine' = TRUE
            /\ pc' = "load"
            /\ UNCHANGED error
  /\ UNCHANGED << env, cache, cached, page, top_n, idx, tables, bound, out,
                  calls, reads, atLoad, runs, prev >>

\* One of the seven assignments of lines 44-50.
LoadTable(ok) ==
  /\ pc = "load"
  /\ LET t == TableOrder[idx]
         r == load_table(t, ok)
     IN  /\ calls' = [ calls EXCEPT ![t] = @ + 1 ]
         /\ reads' = [ reads EXCEPT ![t] = @ + (IF r.read THEN 1 ELSE 0) ]
         /\ atLoad' = [ atLoad EXCEPT ![t] =
                          [ hit |-> t \in cached, src |-> source[t],
                            entry |-> cache[t], df |-> r.df ] ]
         /\ IF r.raised
              THEN /\ error' = "load"
                   /\ UNCHANGED << tables, bound, cache, cached >>
              ELSE /\ tables' = [ tables EXCEPT ![t] = r.df ]
                   /\ bound' = bound \cup { t }
                   /\ cache' = [ cache EXCEPT ![t] = r.df ]
                   /\ cached' = cached \cup { t }
                   /\ UNCHANGED error
         /\ pc' = AfterLoad(r.raised, idx)
         /\ idx' = IF AfterLoad(r.raised, idx) = "failed" THEN idx ELSE idx + 1
  /\ UNCHANGED << env, page, top_n, engine, out, runs, prev >>

RenderFrame == << env, cache, cached, page, idx, engine, bound, error, calls,
                  reads, atLoad, runs, prev >>

RenderOverview ==
  /\ pc = "page"
  /\ page = "Overview"
  /\ LET ps == tables["payment_summary"]
         body == OverviewBody(tables)
     IN  /\ out' = << Rendered(page, tables, body) >>
         /\ tables' = [ tables EXCEPT !["payment_summary"] =
                          IF ~empty(ps) THEN after_copy(ps, body.share) ELSE ps ]
  /\ top_n' = SliderDefault
  /\ pc' = "done"
  /\ UNCHANGED RenderFrame

RenderDailyTrends ==
  /\ pc = "page"
  /\ page = "Daily Trends"
  /\ out' = << Rendered(page, tables, DailyTrendsBody(tables)) >>
  /\ top_n' = SliderDefault
  /\ pc' = "done"
  /\ UNCHANGED << RenderFrame, tables >>

RenderCustomerBehavior ==
  /\ pc = "page"
  /\ page = "Customer Behavior"
  /\ out' = << Rendered(page, tables, CustomerBehaviorBody(tables)) >>
  /\ top_n' = SliderDefault
  /\ pc' = "done"
  /\ UNCHANGED << RenderFrame, tables >>

RenderGeography ==
  /\ pc = "page"
  /\ page = "Geography"
  /\ out' = << Rendered(page, tables, GeographyBody(tables)) >>
  /\ top_n' = SliderDefault
  /\ pc' = "done"
  /\ UNCHANGED << RenderFrame, tables >>

RenderPerformanceInsights ==
  /\ pc = "page"
  /\ page = "Performance Insights"
  /\ LET dr == tables["daily_revenue"]
         body == PerformanceInsightsBody(tables, top_n)
     IN  /\ out' = << Rendered(page, tables, body) >>
         /\ tables' = [ tables EXCEPT !["daily_revenue"] =
                          IF body.charted THEN after_copy(dr, body.dr_eff) ELSE dr ]
  /\ pc' = "done"
  /\ UNCHANGED << RenderFrame, top_n >>

Render ==
  \/ RenderOverview
  \/ RenderDailyTrends
  \/ RenderCustomerBehavior
  \/ RenderGeography
  \/ RenderPerformanceInsights

\* ---------------------------------------------------------- specifications
\* A session: the first run is about to start, nothing is cached.
Init ==
  /\ DB_URL \in EnvValues
  /\ \E c \in SessionContents : source = Warehouse(c)
  /\ tieBreak \in { "original", "reversed" }
  /\ cache = NoFrames
  /\ cached = {}
  /\ page = Pages[1]
  /\ top_n = SliderDefault
  /\ pc = "config"
  /\ idx = 1
  /\ engine = FALSE
  /\ tables = NoFrames
  /\ bound = {}
  /\ out = << >>
  /\ error = "none"
  /\ calls = NoCounts
  /\ reads = NoCounts
  /\ atLoad = NoLoads
  /\ runs = 1
  /\ prev = << >>

Next ==
  \/ CheckConfig
  \/ \E ok \in BOOLEAN : LoadTable(ok)
  \/ Render
  \/ Rerun
  \/ \E p \in PageSet : SelectPage(p)
  \/ \E n \in SliderVals : MoveSlider(n)
  \/ ClearCache
  \/ \E c \in SessionContents : PipelineRefresh(c)

Spec == Init /\ [][Next]_vars

\* The views a pipeline run left without rows: none, or any one of them.
EmptyViews == { {} } \cup { { t } : t \in TableNames }

\* A run that has reached line 56 with its seven views loaded, over every
\* content of the views within the bounds, one view possibly without rows.
InitLoaded ==
  /\ DB_URL = "postgresql://pooler"
  /\ \E c \in Contents, e \in EmptyViews :
       source = [ t \in TableNames |-> IF t \in e THEN << >> ELSE View(t, c) ]
  /\ tieBreak \in { "original", "reversed" }
  /\ cache = source
  /\ cached = TableNames
  /\ page \in PageSet
  /\ top_n \in IF page = "Performance Insights" THEN SliderVals ELSE { SliderDefault }
  /\ pc = "page"
  /\ idx = Len(TableOrder) + 1
  /\ engine = TRUE
  /\ tables = source
  /\ bound = TableNames
  /\ out = << >>
  /\ error = "none"
  /\ calls = [ t \in TableNames |-> 1 ]
  /\ reads = [ t \in TableNames |-> 1 ]
  /\ atLoad = [ t \in TableNames |->
                 [ hit |-> FALSE, src |-> source[t], entry |-> << >>, df |-> source[t] ] ]
  /\ runs = 1
  /\ prev = << >>

PagesSpec == InitLoaded /\ [][Render]_vars

\* ------------------------------------------------------------------ claims
Pos(t) == CHOOSE i \in 1..Len(TableOrder) : TableOrder[i] = t

Abs(x) == IF x < 0 THEN -x ELSE x

\* C1: a run calls load_table for each of the seven views at most once, in
\* order, and has called it for all seven before it renders anything; a run
\* whose load raised has rendered nothing, has loaded no later view and has
\* not bound the failing one; a run reaches line 56 only with all seven
\* views bound and no error.
C1_EagerFailFast ==
  /\ \A t \in TableNames : calls[t] <= 1 /\ (t \in bound => calls[t] = 1)
  /\ \A t \in TableNames : calls[t] = 1 <=> Pos(t) < idx \/ (pc = "failed" /\ Pos(t) = idx)
  /\ out # << >> => bound = TableNames
  /\ pc = "failed" =>
       /\ out = << >>
       /\ error = "load"
       /\ bound = { t \in TableNames : Pos(t) < idx }
  /\ pc \in { "page", "done" } => bound = TableNames /\ error = "none"

\* C1, witness: the load of a view in the middle of the list has failed.
C1_Witness == pc = "failed" /\ idx = 4 /\ Cardinality(bound) = 3

\* C2: with DATABASE_URL unset or empty the run creates no engine, calls
\* load_table for no view, reads nothing, renders nothing, and ends stopped
\* with the configuration error reported.
C2_NoLoadWithoutConfig ==
  DB_URL \in { "None", "" } =>
    /\ ~engine
    /\ \A t \in TableNames : calls[t] = 0 /\ reads[t] = 0
    /\ bound = {}
    /\ out = << >>
    /\ pc \in { "config", "stopped" }
    /\ pc = "stopped" => error = "config"

\* C2, witness: a rerun with an empty DATABASE_URL has stopped again.
C2_Witness == DB_URL = "" /\ pc = "stopped" /\ runs = 2 /\ error = "config"

\* C3: every bound view holds exactly the frame load_table returned for it,
\* before and after the page is rendered, without the derived columns, and
\* the cache still holds that frame.
C3_TablesNotMutated ==
  \A t \in bound :
    /\ tables[t] = atLoad[t].df
    /\ t \in cached => cache[t] = atLoad[t].df
    /\ \A i \in 1..Len(tables[t]) :
         { "rev_share_pct", "revenue_per_trip" } \cap DOMAIN tables[t][i] = {}

\* C3, witness: the Overview has been rendered after Performance Insights,
\* both having derived a column from a view with rows.
C3_Witness ==
  /\ pc = "done"
  /\ page = "Overview"
  /\ Len(out[1].body.share) > 0
  /\ prev # << >>
  /\ prev[1].page = "Performance Insights"
  /\ prev[1].out[1].body.charted

\* Whether res is df's top n by col, largest first, with equal keys in the
\* order of the loaded frame (idcol numbers the rows in that order), and
\* holds the rows a stable sort chooses.
IsStableTopN(res, df, col, n, idcol) ==
  /\ Len(res) = Min(n, Len(df))
  /\ \A a, b \in 1..Len(res) :
       a < b =>
         /\ res[a][col] >= res[b][col]
         /\ res[a][col] = res[b][col] => res[a][idcol] < res[b][idcol]
  /\ \A a \in 1..Len(res) :
       \E i \in 1..Len(df) : df[i][idcol] = res[a][idcol] /\ df[i][col] = res[a][col]
  /\ \A i \in 1..Len(df) :
       (\A a \in 1..Len(res) : res[a][idcol] # df[i][idcol]) =>
         \A a \in 1..Len(res) :
           \/ df[i][col] < res[a][col]
           \/ df[i][col] = res[a][col] /\ df[i][idcol] > res[a][idcol]

\* C4: every top-N result a page shows is in non-increasing order of its
\* sort column, has min(n, rows) rows and is stable: equal keys keep the
\* order of the loaded view.
C4_TopNStable ==
  pc = "done" =>
    LET b == out[1].body
        dr == tables["daily_revenue"]
        pk == tables["pickup_summary"]
        dp == tables["dropoff_summary"]
        ht == tables["hourly_trends"]
    IN  CASE page = "Overview" ->
               /\ IsStableTopN(b.peak_day, dr, "total_revenue", PeakN, "trip_date")
               /\ IsStableTopN(b.peak_trips_day, dr, "trips", PeakN, "trip_date")
               /\ IsStableTopN(b.peak_hour, ht, "trips", PeakN, "hour_of_day")
               /\ IsStableTopN(b.tp, pk, "revenue", PeakN, "pickup_zone")
               /\ IsStableTopN(b.td, dp, "revenue", PeakN, "dropoff_zone")
          [] page = "Geography" ->
               /\ IsStableTopN(b.top_pickups, pk, "revenue", TopZonesN, "pickup_zone")
               /\ IsStableTopN(b.top_dropoffs, dp, "revenue", TopZonesN, "dropoff_zone")
          [] page = "Performance Insights" ->
               /\ IsStableTopN(b.top_days_rev, dr, "total_revenue", TopDaysN, "trip_date")
               /\ IsStableTopN(b.top_days_trips, dr, "trips", TopDaysN, "trip_date")
               /\ IsStableTopN(b.top_hours, ht, "trips", TopHoursN, "hour_of_day")
               /\ IsStableTopN(b.pickup_board, pk, "revenue", top_n, "pickup_zone")
               /\ IsStableTopN(b.dropoff_board, dp, "revenue", top_n, "dropoff_zone")
          [] OTHER -> TRUE

\* C5: on the Overview, with payment rows: when their revenue totals more
\* than 0 every share is the hundredth nearest to 100 * revenue / total and
\* the shares sum to 100.00 within 0.01 per row; when it totals 0 every
\* share is 0; and whatever the total, every share the page is about to
\* show is a defined number between 0 and 100.00 (no division fails).
C5_PaymentShare ==
  /\ pc = "page" /\ page = "Overview" =>
       LET share == OverviewBody(tables).share
       IN  \A i \in 1..Len(share) : share[i].rev_share_pct \in 0..10000
  /\ pc = "done" /\ page = "Overview" /\ Len(tables["payment_summary"]) > 0 =>
       LET ps == tables["payment_summary"]
           share == out[1].body.share
           total == SumTo(ps, "revenue", Len(ps))
       IN  /\ Len(share) = Len(ps)
           /\ \A i \in 1..Len(ps) :
                /\ share[i].payment_type = ps[i].payment_type
                /\ share[i].revenue = ps[i].revenue
                /\ total > 0 =>
                     2 * Abs(share[i].rev_share_pct * total - 10000 * ps[i].revenue) <= total
                /\ total = 0 => share[i].rev_share_pct = 0
           /\ total > 0 =>
                Abs(SumTo(share, "rev_share_pct", Len(share)) - 10000) <= Len(share)

\* C5, witness: a share that had to be rounded has been shown.
C5_Witness ==
  /\ pc = "done"
  /\ page = "Overview"
  /\ \E i \in 1..Len(out[1].body.share) :
       LET ps == tables["payment_summary"]
       IN  out[1].body.share[i].rev_share_pct * SumTo(ps, "revenue", Len(ps))
             # 10000 * ps[i].revenue

\* C6: the charted revenue_per_trip of a day without trips is never the
\* result of a division by zero.
C6_NoDivisionByZeroCharted ==
  pc = "done" /\ page = "Performance Insights" /\ out[1].body.charted =>
    \A i \in 1..Len(out[1].body.fig_rpt) :
      out[1].body.fig_rpt[i].trips = 0 =>
        out[1].body.fig_rpt[i].revenue_per_trip.kind \notin { "inf", "nan" }

\* C7: with daily_revenue without rows the two totals are 0 on every page
\* and the Overview's three means are 0.0; whichever view has no rows, every
\* mean the Overview is about to show is a defined number and every entry is
\* a label or "N/A", and it shows "N/A" for every entry taken from a view
\* without rows.
C7_EmptyViews ==
  /\ pc = "page" /\ page = "Overview" =>
       LET b == OverviewBody(tables)
       IN  /\ \A k \in { "avg_fare_all", "avg_distance_all", "avg_tip_pct_all" } :
                b[k].den > 0
           /\ \A k \in { "top_method", "peak_rev_text", "peak_trips_text",
                          "peak_hour_text", "top_pickup_text", "top_dropoff_text" } :
                b[k].text \in { "N/A", "shown" }
  /\ pc = "done" /\ Len(tables["daily_revenue"]) = 0 =>
       out[1].total_revenue_all = 0 /\ out[1].total_trips_all = 0
  /\ pc = "done" /\ page = "Overview" =>
       LET b == out[1].body
           zero == [ num |-> 0, den |-> 1 ]
           na == [ text |-> "N/A", label |-> 0, value |-> 0 ]
       IN  /\ Len(tables["daily_revenue"]) = 0 =>
                /\ b.avg_fare_all = zero
                /\ b.avg_distance_all = zero
                /\ b.avg_tip_pct_all = zero
                /\ b.peak_rev_text = na
                /\ b.peak_trips_text = na
           /\ Len(tables["payment_summary"]) = 0 => b.top_method = na
           /\ Len(tables["hourly_trends"]) = 0 => b.peak_hour_text = na
           /\ Len(tables["pickup_summary"]) = 0 => b.top_pickup_text = na
           /\ Len(tables["dropoff_summary"]) = 0 => b.top_dropoff_text = na

\* C7, witness: the Overview has been rendered with daily_revenue alone
\* without rows.
C7_Witness ==
  /\ pc = "done"
  /\ page = "Overview"
  /\ Len(tables["daily_revenue"]) = 0
  /\ Len(tables["pickup_summary"]) > 0
  /\ out[1].body.top_pickup_text.text = "shown"

\* C8, as claimed: every view a run has bound was read from the source in
\* that run and holds the source's rows as of that read.
C8_ReadEveryRun ==
  \A t \in bound : reads[t] = 1 /\ tables[t] = atLoad[t].src

\* C8, amended: a view is read from the source only by a load_table call
\* that finds no cached entry, and then holds the source's rows; a call that
\* finds an entry reads nothing and the run holds the entry, whatever the
\* source holds by then.
C8_ReadOnlyOnCacheMiss ==
  \A t \in bound :
    IF atLoad[t].hit
      THEN reads[t] = 0 /\ tables[t] = atLoad[t].entry
      ELSE reads[t] = 1 /\ tables[t] = atLoad[t].src

\* C8, witness: a report has been rendered from cached views that differ
\* from what the source holds.
C8_Witness ==
  /\ pc = "done"
  /\ \A t \in TableNames : atLoad[t].hit /\ reads[t] = 0
  /\ tables["daily_revenue"] # source["daily_revenue"]

\* What the current run found in the source, view by view.
Seen == [ t \in TableNames |-> atLoad[t].src ]

BranchMark(q) ==
  CASE q = "Overview" -> "top_method"
    [] q = "Daily Trends" -> "fig_rev"
    [] q = "Customer Behavior" -> "fig_payment"
    [] q = "Geography" -> "top_pickups"
    [] q = "Performance Insights" -> "top_hours"

\* C10: the radio holds one of the five pages; a finished run has rendered
\* one page, the selected one, and no other branch; a run served the cached
\* views holds the views of the last rendered run and shows its two totals,
\* whichever pages the two runs rendered.
C10_OnePageSameTotals ==
  /\ page \in PageSet
  /\ Len(out) <= 1
  /\ pc = "done" =>
       /\ Len(out) = 1
       /\ out[1].page = page
       /\ \A q \in PageSet : BranchMark(q) \in DOMAIN out[1].body <=> q = page
  /\ pc = "done" /\ prev # << >> /\ (\A t \in TableNames : atLoad[t].hit) =>
       /\ prev[1].tables = tables
       /\ prev[1].out[1].total_revenue_all = out[1].total_revenue_all
       /\ prev[1].out[1].total_trips_all = out[1].total_trips_all

\* C10, witness: another page than the last one has been rendered from the
\* same views, with a total revenue above 0.
C10_Witness ==
  /\ pc = "done"
  /\ prev # << >>
  /\ prev[1].page = "Overview"
  /\ page = "Geography"
  /\ \A t \in TableNames : atLoad[t].hit
  /\ out[1].total_revenue_all > 0

====
